---- MODULE Spec2Model ----
(***************************************************************************)
(* A model of src/pasp/clearn.c: the learnable-index builder               *)
(* (init_indices), the parameter storage allocator (init_parameters), the  *)
(* EM fixpoint driver (learn_fixpoint) and the publish-back adapter        *)
(* (update_program_parameters).                                            *)
(*                                                                         *)
(* Two specifications share the variables:                                 *)
(*   SpecAlloc  calls init_indices / init_parameters (and their free       *)
(*              functions) on every program within the bounds and on a     *)
(*              program of UInt16Mod + 1 facts, with an allocation         *)
(*              failure injected at any one malloc site;                   *)
(*   Spec       runs one call of learn_fixpoint, statement group by        *)
(*              statement group, against a nondeterministic solver.        *)
(*                                                                         *)
(* C doubles are modelled as exact non-negative rationals <<num, den>>     *)
(* extended with +Inf = <<1,0>> and NaN = <<0,0>>, the values IEEE-754     *)
(* division by zero produces; rounding is not modelled.                    *)
(***************************************************************************)
EXTENDS Integers, Sequences, FiniteSets, TLC

VARIABLES
  P,          \* program_t: [PF: Seq([learnable, p]), AD: Seq([learnable, n, P])]
              \* (and PF_skip, when leading facts are counted, not listed)
  pub,        \* the Python-side objects: [PF: Seq(double), AD: Seq(Seq(double))]
  pub0,       \* pub as it was when the call started (history)
  args,       \* the arguments of learn_fixpoint
  pc,         \* position in the running function
  O,          \* observations_t of learn_fixpoint
  I,          \* indices_t (output of init_indices / local of learn_fixpoint)
  W,          \* parameters_t (output of init_parameters)
  Q,          \* prob_storage_t Q[NUM_PROCS] of learn_fixpoint
  num_procs,  \* local of learn_fixpoint
  N,          \* local of learn_fixpoint: |O|
  it,         \* loop counter i of learn_fixpoint's iteration loop
  allocd,     \* blocks malloc returned to the functions modelled, in order (history)
  freed,      \* non-NULL pointers passed to free so far, in order (history)
  errs,       \* messages passed to PyErr_SetString so far, in order
  ret,        \* return value of the function, once it has returned (FALSE before)
  log,        \* the steps learn_fixpoint has taken, in order (history)
  zeroDen,    \* the solver has filled an observation probability P(O) = 0 (history)
  fault,      \* the failure injected into the call, NoFail if none (history)
  Wblk        \* where the caller keeps the parameters_t: a malloc'ed block, or NULL
              \* when it is not on the heap

vars == <<P, pub, pub0, args, pc, O, I, W, Q, num_procs, N, it,
          allocd, freed, errs, ret, log, zeroDen, fault, Wblk>>

(***************************************************************************)
(* Bounds.                                                                 *)
(***************************************************************************)
MaxPF == 2
MaxAD == 2
MaxOut == 2
MaxIters == 2

(***************************************************************************)
(* Program constants.                                                      *)
(***************************************************************************)
NUM_PROCS == 1
UInt16Mod == 65536

(***************************************************************************)
(* Doubles.                                                                *)
(***************************************************************************)
RECURSIVE Gcd(_, _)
Gcd(a, b) == IF b = 0 THEN a ELSE Gcd(b, a % b)

Norm(n, d) ==
  IF d = 0 THEN (IF n = 0 THEN <<0, 0>> ELSE <<1, 0>>)
  ELSE LET g == Gcd(n, d) IN <<n \div g, d \div g>>

Zero == <<0, 1>>
One == <<1, 1>>
Inf == <<1, 0>>
NaN == <<0, 0>>
Frac(n, d) == Norm(n, d)
FromInt(c) == <<c, 1>>
IsNaN(x) == x = NaN
IsFinite(x) == x[2] # 0

\* x + y on doubles >= 0: NaN is absorbing, Inf + y = Inf.
DAdd(x, y) ==
  IF IsNaN(x) \/ IsNaN(y) THEN NaN
  ELSE IF x = Inf \/ y = Inf THEN Inf
  ELSE Norm(x[1] * y[2] + y[1] * x[2], x[2] * y[2])

\* x * y on doubles >= 0: 0 * Inf = NaN.
DMul(x, y) ==
  IF IsNaN(x) \/ IsNaN(y) THEN NaN
  ELSE IF x = Inf \/ y = Inf
       THEN (IF x = Zero \/ y = Zero THEN NaN ELSE Inf)
  ELSE Norm(x[1] * y[1], x[2] * y[2])

\* x / y on doubles >= 0: 0/0 = Inf/Inf = NaN, x/0 = Inf, x/Inf = 0.
DDiv(x, y) ==
  IF IsNaN(x) \/ IsNaN(y) THEN NaN
  ELSE IF x = Inf THEN (IF y = Inf THEN NaN ELSE Inf)
  ELSE IF y = Inf THEN Zero
  ELSE IF y = Zero THEN (IF x = Zero THEN NaN ELSE Inf)
  ELSE Norm(x[1] * y[2], x[2] * y[1])

RECURSIVE DSum(_)
DSum(s) == IF s = <<>> THEN Zero ELSE DAdd(DSum(SubSeq(s, 1, Len(s) - 1)), s[Len(s)])

(***************************************************************************)
(* Pointers and the heap.  A pointer is NULL or the name of a block.       *)
(***************************************************************************)
NULL == <<"NULL", 0>>
BlkIF == <<"I_F", 0>>
BlkIA == <<"I_A", 0>>
BlkF == <<"F", 0>>
BlkA == <<"A", 0>>
BlkAi(i) == <<"A[i]", i>>
BlkW == <<"W", 0>>
BlkO == <<"O", 0>>
BlkQ(i) == <<"Q[i].P", i>>
NoFail == <<"none", 0>>

\* free(p) for each p of ptrs in order; free(NULL) does nothing.
FreeAll(ptrs) == SelectSeq(ptrs, LAMBDA p : p # NULL)

SeqToSet(s) == {s[k] : k \in 1..Len(s)}
NoDup(s) == \A a, b \in 1..Len(s) : a # b => s[a] # s[b]

(***************************************************************************)
(* Programs.                                                               *)
(***************************************************************************)
SeqsUpTo(S, n) == UNION {[1..k -> S] : k \in 0..n}

Uniform(n) == [j \in 1..n |-> Frac(1, n)]
Half == Frac(1, 2)

mkPF(l) == [learnable |-> l, p |-> Half]
mkAD(l, n) == [learnable |-> l, n |-> n, P |-> Uniform(n)]

PFs == {mkPF(l) : l \in BOOLEAN}
ADs == {mkAD(l, n) : l \in BOOLEAN, n \in 1..MaxOut}
SmallPrograms == {[PF |-> pf, AD |-> ad] : pf \in SeqsUpTo(PFs, MaxPF), ad \in SeqsUpTo(ADs, MaxAD)}

\* A program with more facts than a uint16_t index can tell apart: PF_n =
\* UInt16Mod + 1 facts, of which the last two (positions UInt16Mod - 1 and
\* UInt16Mod) are learnable.  The UInt16Mod - 1 facts before them are not
\* learnable and are kept as a count, PF_skip, instead of being listed: PF[x] is
\* the fact at position PF_skip + x - 1.
WideProgram ==
  [PF |-> <<mkPF(TRUE), mkPF(TRUE)>>,
   AD |-> <<mkAD(TRUE, 2)>>,
   PF_skip |-> UInt16Mod - 1]

\* The number of leading facts a program record does not list; a record without
\* the field lists every fact.
Skipped(Pr) == IF "PF_skip" \in DOMAIN Pr THEN Pr.PF_skip ELSE 0

\* PF_n.
NumFacts(Pr) == Skipped(Pr) + Len(Pr.PF)

Programs == SmallPrograms \cup {WideProgram}

\* The Python objects mirror the C structure when a call starts.
Published(Pr) ==
  [PF |-> [i \in 1..Len(Pr.PF) |-> Pr.PF[i].p],
   AD |-> [i \in 1..Len(Pr.AD) |-> Pr.AD[i].P]]

(***************************************************************************)
(* init_indices.                                                           *)
(***************************************************************************)
ZeroI == [n |-> 0, m |-> 0, F |-> NULL, A |-> NULL, Fv |-> <<>>, Av |-> <<>>]

\* The counting pass over the listed entries, from listed entry i on.
RECURSIVE CountLearnable(_, _)
CountLearnable(S, i) ==
  IF i = Len(S) THEN 0
  ELSE (IF S[i + 1].learnable THEN 1 ELSE 0) + CountLearnable(S, i + 1)

\* The filling pass, I_F[j++] = i, from listed entry i on.  Listed entry i is at
\* position skip + i of the collection; the scan passes the skip unlisted entries
\* before it without storing anything, none of them being learnable.  The
\* position is a size_t and is stored in a uint16_t.
RECURSIVE FillFrom(_, _, _)
FillFrom(S, i, skip) ==
  IF i = Len(S) THEN <<>>
  ELSE (IF S[i + 1].learnable THEN <<(skip + i) % UInt16Mod>> ELSE <<>>)
       \o FillFrom(S, i + 1, skip)

FillIndices(S, skip) == FillFrom(S, 0, skip)

\* fail: the malloc site that returns NULL (NoFail: none does).
init_indices(Pr, fail) ==
  LET n == CountLearnable(Pr.PF, 0)
      m == CountLearnable(Pr.AD, 0)
      failF == n > 0 /\ fail = BlkIF
      I_F == IF n > 0 /\ ~failF THEN BlkIF ELSE NULL
      failA == ~failF /\ m > 0 /\ fail = BlkIA
      I_A == IF m > 0 /\ ~failF /\ ~failA THEN BlkIA ELSE NULL
      got == SelectSeq(<<I_F, I_A>>, LAMBDA p : p # NULL)
  IN IF failF \/ failA
     THEN [ret |-> FALSE, I |-> ZeroI, allocd |-> got,
           freed |-> FreeAll(<<I_F, I_A>>),
           errs |-> <<"could not allocate memory in init_indices!">>]
     ELSE [ret |-> TRUE,
           I |-> [n |-> n, m |-> m, F |-> I_F, A |-> I_A,
                  Fv |-> FillIndices(Pr.PF, Skipped(Pr)), Av |-> FillIndices(Pr.AD, 0)],
           allocd |-> got, freed |-> <<>>, errs |-> <<>>]

free_indices_contents(Ix) == FreeAll(<<Ix.F, Ix.A>>)

(***************************************************************************)
(* init_parameters.                                                        *)
(***************************************************************************)
ZeroW == [n |-> 0, m |-> 0, F |-> NULL, A |-> NULL, Aent |-> <<>>, Alen |-> <<>>,
          I_F |-> NULL, I_A |-> NULL, I_Fv |-> <<>>, I_Av |-> <<>>]

\* A faulty variant: forgets the entries A[0..i-1] when A[i] cannot be allocated.
init_parameters_leak(Pr, fail) ==
  LET r == init_indices(Pr, fail)
      m == r.I.m
      F == IF fail = BlkF THEN NULL ELSE BlkF
      A == IF F = NULL \/ fail = BlkA THEN NULL ELSE BlkA
      bad == {i \in 0..(m - 1) : fail = BlkAi(i)}
      k == IF A = NULL \/ bad = {} THEN m ELSE CHOOSE i \in bad : TRUE
      ent == [i \in 1..(IF A = NULL THEN 0 ELSE k) |-> BlkAi(i - 1)]
      len == [i \in 1..m |-> Pr.AD[r.I.Av[i] + 1].n]
  IN IF ~r.ret THEN [ret |-> FALSE, W |-> ZeroW, allocd |-> r.allocd,
                     freed |-> r.freed, errs |-> r.errs]
     ELSE IF F = NULL \/ A = NULL \/ k < m
     THEN [ret |-> FALSE, W |-> ZeroW,
           allocd |-> r.allocd \o SelectSeq(<<F, A>>, LAMBDA p : p # NULL) \o ent,
           freed |-> FreeAll(<<r.I.F, r.I.A, F, A>>),
           errs |-> <<"could not allocate memory in init_parameters!">>]
     ELSE [ret |-> TRUE,
           W |-> [n |-> r.I.n, m |-> m, F |-> F, A |-> A, Aent |-> ent, Alen |-> len,
                  I_F |-> r.I.F, I_A |-> r.I.A, I_Fv |-> r.I.Fv, I_Av |-> r.I.Av],
           allocd |-> r.allocd \o <<F, A>> \o ent, freed |-> <<>>, errs |-> <<>>]

\* fail: the malloc site that returns NULL (NoFail: none does).  malloc(0), which
\* the call makes for F when n = 0 and for A when m = 0, is taken to return a
\* block, as glibc does; a malloc(0) that returns NULL is the failure at that site.
init_parameters(Pr, fail) ==
  LET r == init_indices(Pr, fail)
      m == r.I.m
      F == IF fail = BlkF THEN NULL ELSE BlkF
      A == IF F = NULL \/ fail = BlkA THEN NULL ELSE BlkA
      bad == {i \in 0..(m - 1) : fail = BlkAi(i)}
      \* the entries A[0..k-1] were allocated; k < m: malloc of A[k] failed
      k == IF A = NULL \/ bad = {} THEN m ELSE CHOOSE i \in bad : TRUE
      ent == [i \in 1..(IF A = NULL THEN 0 ELSE k) |-> BlkAi(i - 1)]
      len == [i \in 1..m |-> Pr.AD[r.I.Av[i] + 1].n]
  IN IF ~r.ret THEN [ret |-> FALSE, W |-> ZeroW, allocd |-> r.allocd,
                     freed |-> r.freed, errs |-> r.errs]
     ELSE IF F = NULL \/ A = NULL \/ k < m
     THEN [ret |-> FALSE, W |-> ZeroW,
           allocd |-> r.allocd \o SelectSeq(<<F, A>>, LAMBDA p : p # NULL) \o ent,
           freed |-> FreeAll(ent \o <<r.I.F, r.I.A, F, A>>),
           errs |-> <<"could not allocate memory in init_parameters!">>]
     ELSE [ret |-> TRUE,
           W |-> [n |-> r.I.n, m |-> m, F |-> F, A |-> A, Aent |-> ent, Alen |-> len,
                  I_F |-> r.I.F, I_A |-> r.I.A, I_Fv |-> r.I.Fv, I_Av |-> r.I.Av],
           allocd |-> r.allocd \o <<F, A>> \o ent, freed |-> <<>>, errs |-> <<>>]

free_parameters_contents(Wx) ==
  FreeAll(<<Wx.F>> \o Wx.Aent \o <<Wx.A, Wx.I_F, Wx.I_A>>)

\* free_parameters(W): the contents, then the parameters_t itself, at address p.
free_parameters(Wx, p) == free_parameters_contents(Wx) \o FreeAll(<<p>>)

(***************************************************************************)
(* SpecAlloc: one call of init_indices or init_parameters on any program   *)
(* within the bounds, then the matching free function.                     *)
(***************************************************************************)
NoArgs == [obs_ndim |-> 2, cnt_ndim |-> 1, atoms_ndim |-> 1, obs_dims |-> <<0, 0>>,
           atoms_n |-> 0, obs_counts |-> <<>>, niters |-> 0]
ZeroO == [n |-> 0, ptr |-> NULL]
ZeroQ == [k \in 0..(NUM_PROCS - 1) |->
            [I_F |-> NULL, n |-> 0, I_A |-> NULL, m |-> 0, ptr |-> NULL, P |-> <<>>]]

IndicesSites == {NoFail, BlkIF, BlkIA}
ParametersSites == IndicesSites \cup {BlkF, BlkA} \cup {BlkAi(i) : i \in 0..(MaxAD - 1)}

AllocInit ==
  /\ P \in Programs
  /\ pub = Published(P) /\ pub0 = pub
  /\ args = NoArgs
  /\ pc = "ready"
  /\ O = ZeroO /\ I = ZeroI /\ W = ZeroW /\ Q = ZeroQ
  /\ num_procs = 0 /\ N = 0 /\ it = 0
  /\ allocd = <<>> /\ freed = <<>> /\ errs = <<>>
  /\ ret = FALSE /\ log = <<>> /\ zeroDen = FALSE /\ fault = NoFail
  /\ Wblk \in {NULL, BlkW}

CallInitIndices ==
  /\ pc = "ready"
  /\ \E fail \in IndicesSites :
       LET r == init_indices(P, fail)
       IN /\ I' = IF r.ret THEN r.I ELSE I
          /\ allocd' = allocd \o r.allocd
          /\ freed' = freed \o r.freed
          /\ errs' = errs \o r.errs
          /\ ret' = r.ret
          /\ fault' = fail
  /\ pc' = "init_indices"
  /\ UNCHANGED <<P, pub, pub0, args, O, W, Q, num_procs, N, it, log, zeroDen>>
  /\ UNCHANGED Wblk

CallInitParameters ==
  /\ pc = "ready"
  /\ \E fail \in ParametersSites :
       LET r == init_parameters(P, fail)
       IN /\ W' = IF r.ret THEN r.W ELSE W
          /\ allocd' = allocd \o r.allocd
          /\ freed' = freed \o r.freed
          /\ errs' = errs \o r.errs
          /\ ret' = r.ret
          /\ fault' = fail
  /\ pc' = "init_parameters"
  /\ UNCHANGED <<P, pub, pub0, args, O, I, Q, num_procs, N, it, log, zeroDen>>
  /\ UNCHANGED Wblk

CallFreeIndicesContents ==
  /\ pc = "init_indices" /\ ret = TRUE
  /\ freed' = freed \o free_indices_contents(I)
  /\ pc' = "free_indices_contents"
  /\ UNCHANGED <<P, pub, pub0, args, O, I, W, Q, num_procs, N, it, allocd, errs,
                 ret, log, zeroDen, fault>>
  /\ UNCHANGED Wblk

CallFreeParametersContents ==
  /\ pc = "init_parameters" /\ ret = TRUE
  /\ freed' = freed \o free_parameters_contents(W)
  /\ pc' = "free_parameters_contents"
  /\ UNCHANGED <<P, pub, pub0, args, O, I, W, Q, num_procs, N, it, allocd, errs,
                 ret, log, zeroDen, fault>>
  /\ UNCHANGED Wblk

\* Line 79, on a parameters_t the caller holds in a malloc'ed block.
CallFreeParameters ==
  /\ pc = "init_parameters" /\ ret = TRUE
  /\ Wblk # NULL
  /\ freed' = freed \o free_parameters(W, Wblk)
  /\ pc' = "free_parameters"
  /\ UNCHANGED <<P, pub, pub0, args, O, I, W, Q, num_procs, N, it, allocd, errs,
                 ret, log, zeroDen, fault>>
  /\ UNCHANGED Wblk

AllocNext ==
  \/ CallInitIndices
  \/ CallInitParameters
  \/ CallFreeIndicesContents
  \/ CallFreeParametersContents
  \/ CallFreeParameters

SpecAlloc == AllocInit /\ [][AllocNext]_vars

(***************************************************************************)
(* learn_fixpoint: the inputs.                                             *)
(***************************************************************************)
L == TRUE
NL == FALSE

LearnPrograms ==
  { [PF |-> <<>>, AD |-> <<>>],
    [PF |-> <<mkPF(NL)>>, AD |-> <<mkAD(NL, 2)>>],
    [PF |-> <<mkPF(L)>>, AD |-> <<>>],
    [PF |-> <<mkPF(NL), mkPF(L)>>, AD |-> <<mkAD(L, 2)>>],
    [PF |-> <<mkPF(L), mkPF(NL), mkPF(L)>>, AD |-> <<mkAD(NL, 2), mkAD(L, 3)>>] }

mkArgs(od, cd, ad, dims, an, cnts) ==
  [obs_ndim |-> od, cnt_ndim |-> cd, atoms_ndim |-> ad, obs_dims |-> dims,
   atoms_n |-> an, obs_counts |-> cnts]

\* Repeat counts of well-shaped calls: one non-negative entry per observation row.
CountSeqs == {<<1>>, <<0>>, <<3, 1>>, <<0, 2>>, <<1, 2, 1>>}

GoodShapes == {mkArgs(2, 1, 1, <<Len(c), 1>>, 1, c) : c \in CountSeqs}

BadShapes ==
  { mkArgs(1, 1, 1, <<2>>, 1, <<3, 1>>),        \* obs is not 2-D
    mkArgs(2, 2, 1, <<2, 1>>, 1, <<3, 1>>),     \* obs_counts is not 1-D
    mkArgs(2, 1, 2, <<2, 1>>, 1, <<3, 1>>),     \* atoms is not 1-D
    mkArgs(2, 1, 1, <<2, 1>>, 2, <<3, 1>>),     \* atoms_n differs from the columns
    mkArgs(2, 1, 1, <<2, 1>>, 1, <<3>>) }       \* obs_counts differs from the rows

\* niters is a positive iteration count.
CallInputs ==
  {[niters |-> k] @@ a : a \in GoodShapes \cup BadShapes, k \in 1..MaxIters}

(***************************************************************************)
(* learn_fixpoint: the numeric steps of one iteration.                     *)
(***************************************************************************)
\* A faulty variant: leaves out the comparison of atoms_n with the column count.
InvalidShapeNoAtoms(a) ==
  \/ a.obs_ndim # 2
  \/ a.cnt_ndim # 1
  \/ a.atoms_ndim # 1
  \/ Len(a.obs_counts) # a.obs_dims[1]

InvalidShape(a) ==
  \/ a.obs_ndim # 2
  \/ a.cnt_ndim # 1
  \/ a.atoms_ndim # 1
  \/ a.atoms_n # a.obs_dims[2]
  \/ Len(a.obs_counts) # a.obs_dims[1]

\* A faulty variant: takes |O| to be the number of distinct observations.
SumCountsRows(cnts, n) == n

RECURSIVE SumCounts(_, _)
SumCounts(cnts, n) == IF n = 0 THEN 0 ELSE SumCounts(cnts, n - 1) + cnts[n]

\* The index-set positions (1-based) whose entry refers to source index idx (0-based).
PosOf(Iv, idx) == {i \in 1..Len(Iv) : Iv[i] = idx}

ResetParams(Pr, Ix) ==
  [PF |-> [x \in 1..Len(Pr.PF) |->
             IF PosOf(Ix.Fv, x - 1) # {} THEN [Pr.PF[x] EXCEPT !.p = Zero]
             ELSE Pr.PF[x]],
   AD |-> [x \in 1..Len(Pr.AD) |->
             IF PosOf(Ix.Av, x - 1) # {}
             THEN [Pr.AD[x] EXCEPT !.P = [j \in 1..Pr.AD[x].n |-> Zero]]
             ELSE Pr.AD[x]]]

\* p += c*(W->F[i_pf][1]/W->o) for the observations 1..k, in order.
RECURSIVE AccFact(_, _, _, _, _)
AccFact(p, i_pf, Qp, cnts, k) ==
  IF k = 0 THEN p
  ELSE DAdd(AccFact(p, i_pf, Qp, cnts, k - 1),
            DMul(FromInt(cnts[k]), DDiv(Qp[k].F[i_pf][2], Qp[k].o)))

\* AD->P[j] += c*(W->A[i_ad][j]/W->o) for the observations 1..k, in order.
RECURSIVE AccOutcome(_, _, _, _, _, _)
AccOutcome(p, i_ad, j, Qp, cnts, k) ==
  IF k = 0 THEN p
  ELSE DAdd(AccOutcome(p, i_ad, j, Qp, cnts, k - 1),
            DMul(FromInt(cnts[k]), DDiv(Qp[k].A[i_ad][j], Qp[k].o)))

\* A faulty variant: drops the repeat count c of each observation.
AccumulateParamsUnweighted(Pr, Ix, Qp, cnts, On) ==
  LET ones == [k \in 1..On |-> 1]
  IN [PF |-> [x \in 1..Len(Pr.PF) |->
                IF PosOf(Ix.Fv, x - 1) # {}
                THEN [Pr.PF[x] EXCEPT !.p =
                        AccFact(@, CHOOSE i \in PosOf(Ix.Fv, x - 1) : TRUE, Qp, ones, On)]
                ELSE Pr.PF[x]],
      AD |-> [x \in 1..Len(Pr.AD) |->
                IF PosOf(Ix.Av, x - 1) # {}
                THEN [Pr.AD[x] EXCEPT !.P =
                        [j \in 1..Pr.AD[x].n |->
                           AccOutcome(@[j], CHOOSE i \in PosOf(Ix.Av, x - 1) : TRUE,
                                      j, Qp, ones, On)]]
                ELSE Pr.AD[x]]]

AccumulateParams(Pr, Ix, Qp, cnts, On) ==
  [PF |-> [x \in 1..Len(Pr.PF) |->
             IF PosOf(Ix.Fv, x - 1) # {}
             THEN [Pr.PF[x] EXCEPT !.p =
                     AccFact(@, CHOOSE i \in PosOf(Ix.Fv, x - 1) : TRUE, Qp, cnts, On)]
             ELSE Pr.PF[x]],
   AD |-> [x \in 1..Len(Pr.AD) |->
             IF PosOf(Ix.Av, x - 1) # {}
             THEN [Pr.AD[x] EXCEPT !.P =
                     [j \in 1..Pr.AD[x].n |->
                        AccOutcome(@[j], CHOOSE i \in PosOf(Ix.Av, x - 1) : TRUE,
                                   j, Qp, cnts, On)]]
             ELSE Pr.AD[x]]]

DivideParams(Pr, Ix, Nv) ==
  [PF |-> [x \in 1..Len(Pr.PF) |->
             IF PosOf(Ix.Fv, x - 1) # {}
             THEN [Pr.PF[x] EXCEPT !.p = DDiv(@, FromInt(Nv))]
             ELSE Pr.PF[x]],
   AD |-> [x \in 1..Len(Pr.AD) |->
             IF PosOf(Ix.Av, x - 1) # {}
             THEN [Pr.AD[x] EXCEPT !.P = [j \in 1..Pr.AD[x].n |-> DDiv(@[j], FromInt(Nv))]]
             ELSE Pr.AD[x]]]

\* A faulty variant: leaves the loop one pass early.
LoopNextShort(i, niters) ==
  IF i + 1 < niters THEN "prob_obs_reuse" ELSE "update_program_parameters"

\* for (size_t i = 0; i < niters; ++i): where control goes with the counter at i.
LoopNext(i, niters) ==
  IF i < niters THEN "prob_obs_reuse" ELSE "update_program_parameters"

(***************************************************************************)
(* The external collaborators of learn_fixpoint, from their interfaces.    *)
(***************************************************************************)
\* What the solver may answer for one observation: the observation's total
\* probability o, the pairs (P(t=false,O), P(t=true,O)) of the learnable facts
\* (position i takes the pair ((i-1) mod 2)+1) and how the outcomes of a
\* learnable disjunction share the mass.
SolverKinds ==
  { [o |-> One,  f |-> <<<<Frac(1, 10), Frac(9, 10)>>, <<Half, Half>>>>, ad |-> "first"],
    [o |-> One,  f |-> <<<<Frac(9, 10), Frac(1, 10)>>, <<Zero, One>>>>, ad |-> "last"],
    [o |-> Half, f |-> <<<<Frac(1, 4), Frac(1, 4)>>, <<Half, Zero>>>>, ad |-> "uniform"],
    [o |-> Zero, f |-> <<<<Zero, Zero>>, <<Zero, Half>>>>, ad |-> "zero"],
    [o |-> One,  f |-> <<<<Half, Half>>, <<Half, Half>>>>, ad |-> "over"] }

OutcomeJoint(kind, n, j) ==
  CASE kind.ad = "first" -> (IF j = 1 THEN kind.o ELSE Zero)
    [] kind.ad = "last" -> (IF j = n THEN kind.o ELSE Zero)
    [] kind.ad = "uniform" -> DDiv(kind.o, FromInt(n))
    [] kind.ad = "over" -> kind.o
    [] OTHER -> Zero

\* One observation's accumulator slot, shaped by the index set.
SolverRow(kind, Pr, Ix) ==
  [o |-> kind.o,
   F |-> [i \in 1..Ix.n |-> kind.f[((i - 1) % 2) + 1]],
   A |-> [i \in 1..Ix.m |->
            [j \in 1..Pr.AD[Ix.Av[i] + 1].n |-> OutcomeJoint(kind, Pr.AD[Ix.Av[i] + 1].n, j)]]]

ZeroRow(Pr, Ix) ==
  [o |-> Zero,
   F |-> [i \in 1..Ix.n |-> <<Zero, Zero>>],
   A |-> [i \in 1..Ix.m |-> [j \in 1..Pr.AD[Ix.Av[i] + 1].n |-> Zero]]]

\* free_prob_storage_contents(&Q[i], false): the slot's storage is freed; the index
\* arrays it borrows from I are not.
free_prob_storage_contents(Qi) == FreeAll(<<Qi.ptr>>)

(***************************************************************************)
(* update_program_parameters.                                              *)
(***************************************************************************)
RECURSIVE Flatten(_)
Flatten(ss) == IF ss = <<>> THEN <<>> ELSE ss[1] \o Flatten(Tail(ss))

\* The Python C-API calls update_program_parameters makes, in order; each may fail.
PublishOps(Pr, Ix) ==
  Flatten([i \in 1..Ix.n |->
             << <<"PyFloat_FromDouble", "PF", i, 0>>,
                <<"PyObject_SetAttrString", "PF", i, 0>> >>])
  \o
  Flatten([i \in 1..Ix.m |->
             << <<"PyObject_GetAttrString", "AD", i, 0>> >> \o
             Flatten([j \in 1..Pr.AD[Ix.Av[i] + 1].n |->
                        << <<"PyFloat_FromDouble", "AD", i, j>>,
                           <<"PyList_SetItem", "AD", i, j>> >>])])

PublishError(op) ==
  CASE op[1] = "PyFloat_FromDouble" -> <<"could not create a Python double from C double!">>
    [] op[1] = "PyObject_SetAttrString" -> <<"could not update PF.p!">>
    [] op[1] = "PyObject_GetAttrString" -> <<"could not retrieve AD.P!">>
    [] OTHER -> <<>>

\* A faulty variant: does not stop at the failing call, goes on with the writes
\* that follow and reports the failure at the end.
update_program_parameters_continue(Pr, Ix, pb, failAt) ==
  LET ops == PublishOps(Pr, Ix)
      did(k) == k # failAt
      wrote(call, kind, i, j) ==
        \E k \in 1..Len(ops) : ops[k] = <<call, kind, i, j>> /\ did(k)
  IN [ret |-> failAt = 0,
      pub |-> [PF |-> [x \in 1..Len(pb.PF) |->
                         IF \E i \in PosOf(Ix.Fv, x - 1) :
                              wrote("PyObject_SetAttrString", "PF", i, 0)
                         THEN Pr.PF[x].p ELSE pb.PF[x]],
               AD |-> [x \in 1..Len(pb.AD) |->
                         [j \in 1..Len(pb.AD[x]) |->
                            IF \E i \in PosOf(Ix.Av, x - 1) :
                                 wrote("PyList_SetItem", "AD", i, j)
                            THEN Pr.AD[x].P[j] ELSE pb.AD[x][j]]]],
      errs |-> IF failAt = 0 THEN <<>> ELSE PublishError(ops[failAt])]

\* failAt: the position in PublishOps of the call that fails (0: none does).
update_program_parameters(Pr, Ix, pb, failAt) ==
  LET ops == PublishOps(Pr, Ix)
      did(k) == failAt = 0 \/ k < failAt
      wrote(call, kind, i, j) ==
        \E k \in 1..Len(ops) : ops[k] = <<call, kind, i, j>> /\ did(k)
  IN [ret |-> failAt = 0,
      pub |-> [PF |-> [x \in 1..Len(pb.PF) |->
                         IF \E i \in PosOf(Ix.Fv, x - 1) :
                              wrote("PyObject_SetAttrString", "PF", i, 0)
                         THEN Pr.PF[x].p ELSE pb.PF[x]],
               AD |-> [x \in 1..Len(pb.AD) |->
                         [j \in 1..Len(pb.AD[x]) |->
                            IF \E i \in PosOf(Ix.Av, x - 1) :
                                 wrote("PyList_SetItem", "AD", i, j)
                            THEN Pr.AD[x].P[j] ELSE pb.AD[x][j]]]],
      errs |-> IF failAt = 0 THEN <<>> ELSE PublishError(ops[failAt])]

(***************************************************************************)
(* Spec: one call of learn_fixpoint.                                       *)
(***************************************************************************)
Init ==
  /\ P \in LearnPrograms
  /\ pub = Published(P) /\ pub0 = pub
  /\ args \in CallInputs
  /\ pc = "start"
  /\ O = ZeroO /\ I = ZeroI /\ W = ZeroW /\ Q = ZeroQ
  /\ num_procs = 0 /\ N = 0 /\ it = 0
  /\ allocd = <<>> /\ freed = <<>> /\ errs = <<>>
  /\ ret = FALSE /\ log = <<>> /\ zeroDen = FALSE /\ fault = NoFail
  /\ Wblk = NULL

\* Lines 92-97: the shape checks.
Validate ==
  /\ pc = "start"
  /\ IF InvalidShape(args)
     THEN /\ errs' = Append(errs, "unexpected size dimension for obs, obs_counts and/or atoms in learn_fixpoint!")
          /\ pc' = "cleanup"
     ELSE /\ errs' = errs
          /\ pc' = "init_observations"
  /\ UNCHANGED <<P, pub, pub0, args, O, I, W, Q, num_procs, N, it, allocd, freed,
                 ret, log, zeroDen, fault>>
  /\ UNCHANGED Wblk

\* Line 99: init_observations builds the observation store or fails.
InitObservations ==
  /\ pc = "init_observations"
  /\ log' = Append(log, "init_observations")
  /\ \E ok \in BOOLEAN :
       IF ok
       THEN /\ O' = [n |-> args.obs_dims[1], ptr |-> BlkO]
            /\ allocd' = Append(allocd, BlkO)
            /\ pc' = "init_indices"
            /\ UNCHANGED <<errs, fault>>
       ELSE /\ errs' = Append(errs, "init_observations failed")
            /\ fault' = <<"init_observations", 0>>
            /\ pc' = "cleanup"
            /\ UNCHANGED <<O, allocd>>
  /\ UNCHANGED <<P, pub, pub0, args, I, W, Q, num_procs, N, it, freed, ret, zeroDen>>
  /\ UNCHANGED Wblk

\* Line 100: init_indices(&I, P).
InitIndices ==
  /\ pc = "init_indices"
  /\ log' = Append(log, "init_indices")
  /\ \E fail \in IndicesSites :
       LET r == init_indices(P, fail)
       IN /\ I' = IF r.ret THEN r.I ELSE I
          /\ allocd' = allocd \o r.allocd
          /\ freed' = freed \o r.freed
          /\ errs' = errs \o r.errs
          /\ fault' = IF r.ret THEN fault ELSE fail
          /\ pc' = IF r.ret THEN "check_learnable" ELSE "cleanup"
  /\ UNCHANGED <<P, pub, pub0, args, O, W, Q, num_procs, N, it, ret, zeroDen>>
  /\ UNCHANGED Wblk

\* Lines 101-105: Q[0] borrows the index set; a program without learnable
\* parameters is rejected.
CheckLearnable ==
  /\ pc = "check_learnable"
  /\ Q' = [Q EXCEPT ![0].I_F = I.F, ![0].n = I.n, ![0].I_A = I.A, ![0].m = I.m]
  /\ IF I.n = 0 /\ I.m = 0
     THEN /\ errs' = Append(errs, "program is not learnable!")
          /\ ret' = FALSE
          /\ pc' = "done"
     ELSE /\ pc' = "init_prob_storage_seq"
          /\ UNCHANGED <<errs, ret>>
  /\ UNCHANGED <<P, pub, pub0, args, O, I, W, num_procs, N, it, allocd, freed,
                 log, zeroDen, fault>>
  /\ UNCHANGED Wblk

\* Line 106: init_prob_storage_seq populates the worker slot Q[0] or fails.
InitProbStorage ==
  /\ pc = "init_prob_storage_seq"
  /\ log' = Append(log, "init_prob_storage_seq")
  /\ \E ok \in BOOLEAN :
       IF ok
       THEN /\ num_procs' = 1
            /\ Q' = [Q EXCEPT ![0].ptr = BlkQ(0),
                              ![0].P = [k \in 1..O.n |-> ZeroRow(P, I)]]
            /\ allocd' = Append(allocd, BlkQ(0))
            /\ pc' = "count"
            /\ UNCHANGED <<errs, fault>>
       ELSE /\ num_procs' = 0
            /\ errs' = Append(errs, "init_prob_storage_seq failed")
            /\ fault' = <<"init_prob_storage_seq", 0>>
            /\ pc' = "cleanup"
            /\ UNCHANGED <<Q, allocd>>
  /\ UNCHANGED <<P, pub, pub0, args, O, I, W, N, it, freed, ret, zeroDen>>
  /\ UNCHANGED Wblk

\* Lines 108-112: N = |O|, then the loop is entered with i = 0.
ComputeN ==
  /\ pc = "count"
  /\ N' = SumCounts(args.obs_counts, O.n)
  /\ it' = 0
  /\ pc' = LoopNext(0, args.niters)
  /\ UNCHANGED <<P, pub, pub0, args, O, I, W, Q, num_procs, allocd, freed, errs,
                 ret, log, zeroDen, fault>>
  /\ UNCHANGED Wblk

\* Line 114: prob_obs_reuse fills every observation's slot of Q[0] or fails.
Solve ==
  /\ pc = "prob_obs_reuse"
  /\ log' = Append(log, "prob_obs_reuse")
  /\ \/ /\ \E ans \in [1..O.n -> SolverKinds] :
             /\ Q' = [Q EXCEPT ![0].P = [k \in 1..O.n |-> SolverRow(ans[k], P, I)]]
             /\ zeroDen' = (zeroDen \/ \E k \in 1..O.n : ans[k].o = Zero)
        /\ pc' = "reset"
        /\ UNCHANGED <<errs, fault>>
     \/ /\ errs' = Append(errs, "prob_obs_reuse failed")
        /\ fault' = <<"prob_obs_reuse", it>>
        /\ pc' = "cleanup"
        /\ UNCHANGED <<Q, zeroDen>>
  /\ UNCHANGED <<P, pub, pub0, args, O, I, W, num_procs, N, it, allocd, freed, ret>>
  /\ UNCHANGED Wblk

\* Lines 122-128.
Reset ==
  /\ pc = "reset"
  /\ log' = Append(log, "reset")
  /\ P' = ResetParams(P, I)
  /\ pc' = "accumulate"
  /\ UNCHANGED <<pub, pub0, args, O, I, W, Q, num_procs, N, it, allocd, freed, errs,
                 ret, zeroDen, fault>>
  /\ UNCHANGED Wblk

\* Lines 130-148.
Accumulate ==
  /\ pc = "accumulate"
  /\ log' = Append(log, "accumulate")
  /\ P' = AccumulateParams(P, I, Q[0].P, args.obs_counts, O.n)
  /\ pc' = "divide"
  /\ UNCHANGED <<pub, pub0, args, O, I, W, Q, num_procs, N, it, allocd, freed, errs,
                 ret, zeroDen, fault>>
  /\ UNCHANGED Wblk

\* Lines 150-158, and the loop's ++i and test.
Divide ==
  /\ pc = "divide"
  /\ log' = Append(log, "divide")
  /\ P' = DivideParams(P, I, N)
  /\ it' = it + 1
  /\ pc' = LoopNext(it + 1, args.niters)
  /\ UNCHANGED <<pub, pub0, args, O, I, W, Q, num_procs, N, allocd, freed, errs,
                 ret, zeroDen, fault>>
  /\ UNCHANGED Wblk

\* Lines 160-165: publish; return true when every write went through.
Publish ==
  /\ pc = "update_program_parameters"
  /\ log' = Append(log, "update_program_parameters")
  /\ \E failAt \in 0..Len(PublishOps(P, I)) :
       LET r == update_program_parameters(P, I, pub, failAt)
       IN /\ pub' = r.pub
          /\ IF r.ret
             THEN /\ ret' = TRUE
                  /\ pc' = "done"
                  /\ UNCHANGED <<errs, fault>>
             ELSE /\ errs' = errs \o r.errs \o <<"could not update program parameters!">>
                  /\ fault' = <<"update_program_parameters", failAt>>
                  /\ pc' = "cleanup"
                  /\ ret' = ret
  /\ UNCHANGED <<P, pub0, args, O, I, W, Q, num_procs, N, it, allocd, freed, zeroDen>>
  /\ UNCHANGED Wblk

\* Lines 166-169.
Cleanup ==
  /\ pc = "cleanup"
  /\ log' = Append(log, "cleanup")
  /\ freed' = freed
              \o Flatten([k \in 1..num_procs |-> free_prob_storage_contents(Q[k - 1])])
              \o free_indices_contents(I)
  /\ ret' = FALSE
  /\ pc' = "done"
  /\ UNCHANGED <<P, pub, pub0, args, O, I, W, Q, num_procs, N, it, allocd, errs,
                 zeroDen, fault>>
  /\ UNCHANGED Wblk

Next ==
  \/ Validate
  \/ InitObservations
  \/ InitIndices
  \/ CheckLearnable
  \/ InitProbStorage
  \/ ComputeN
  \/ Solve
  \/ Reset
  \/ Accumulate
  \/ Divide
  \/ Publish
  \/ Cleanup

Spec == Init /\ [][Next]_vars

(***************************************************************************)
(* Properties of init_indices and init_parameters (SpecAlloc).             *)
(***************************************************************************)
LearnableSet(S) == {i \in 0..(Len(S) - 1) : S[i + 1].learnable}

LearnableFacts(Pr) == {Skipped(Pr) + i : i \in LearnableSet(Pr.PF)}

IndexSeqOk(v, len, lrn) ==
  /\ Len(v) = len
  /\ len = Cardinality(lrn)
  /\ SeqToSet(v) = lrn
  /\ \A a, b \in 1..Len(v) : a < b => v[a] < v[b]

\* C1: for any program, after a successful init_indices, I.F (length I.n) holds
\* exactly the positions of the learnable facts and I.A (length I.m) exactly the
\* positions of the learnable disjunctions, each strictly ascending, each as long
\* as the number of learnable entries of its collection.
C1_IndexCorrect ==
  (pc = "init_indices" /\ ret = TRUE) =>
    /\ IndexSeqOk(I.Fv, I.n, LearnableFacts(P))
    /\ IndexSeqOk(I.Av, I.m, LearnableSet(P.AD))

\* What does hold: the same, for the programs whose collections have at most
\* UInt16Mod entries, where the conversion to uint16_t changes no position.
IndexCorrectWithinUInt16 ==
  (pc = "init_indices" /\ ret = TRUE
     /\ NumFacts(P) <= UInt16Mod /\ Len(P.AD) <= UInt16Mod) =>
    /\ IndexSeqOk(I.Fv, I.n, LearnableFacts(P))
    /\ IndexSeqOk(I.Av, I.m, LearnableSet(P.AD))

\* Whether the call that ran reaches the malloc site chosen for the failure.
FaultRuns ==
  LET n == Cardinality(LearnableSet(P.PF))
      m == Cardinality(LearnableSet(P.AD))
  IN \/ fault = BlkIF /\ n > 0
     \/ fault = BlkIA /\ m > 0
     \/ pc = "init_parameters" /\ fault \in {BlkF, BlkA}
     \/ pc = "init_parameters" /\ \E i \in 0..(m - 1) : fault = BlkAi(i)

\* C9: an allocation failure at any one malloc site of init_indices or
\* init_parameters makes the function return false with every block it had
\* allocated freed exactly once, nothing else freed, the output structure
\* unwritten and exactly one error raised.
C9_Rollback ==
  (pc \in {"init_indices", "init_parameters"}) =>
    /\ FaultRuns => ret = FALSE
    /\ (ret = FALSE) =>
         /\ Len(errs) = 1
         /\ NoDup(allocd) /\ NoDup(freed)
         /\ SeqToSet(freed) = SeqToSet(allocd)
         /\ I = ZeroI /\ W = ZeroW

C9_Witness ==
  /\ pc = "init_parameters" /\ ret = FALSE
  /\ fault = BlkAi(1)
  /\ allocd = <<BlkIF, BlkIA, BlkF, BlkA, BlkAi(0)>>
  /\ Len(freed) = 5

(***************************************************************************)
(* Properties of learn_fixpoint (Spec).                                    *)
(***************************************************************************)
Logged(step) == step \in SeqToSet(log)
LastStep == IF log = <<>> THEN "none" ELSE log[Len(log)]
Occurrences(s, x) == Cardinality({k \in 1..Len(s) : s[k] = x})

\* The writes update_program_parameters makes when nothing fails, in order:
\* <<collection, source position (1-based), outcome>>.
PublishWrites ==
  [i \in 1..I.n |-> <<"PF", I.Fv[i] + 1, 0>>]
  \o Flatten([i \in 1..I.m |-> [j \in 1..P.AD[I.Av[i] + 1].n |-> <<"AD", I.Av[i] + 1, j>>]])

\* The published values after the first k of those writes.
PublishedPrefix(k) ==
  LET w == SeqToSet(SubSeq(PublishWrites, 1, k))
  IN [PF |-> [x \in 1..Len(pub0.PF) |->
                IF <<"PF", x, 0>> \in w THEN P.PF[x].p ELSE pub0.PF[x]],
      AD |-> [x \in 1..Len(pub0.AD) |->
                [j \in 1..Len(pub0.AD[x]) |->
                   IF <<"AD", x, j>> \in w THEN P.AD[x].P[j] ELSE pub0.AD[x][j]]]]

\* C2 as stated: a call that returns failure has changed no published value,
\* whatever failed, a write inside update_program_parameters included.
C2_FailureUnpublished ==
  (pc = "done" /\ ret = FALSE) => pub = pub0

\* C2 as amended: until update_program_parameters runs nothing is published, so a
\* call that fails before it (validation, observation ingestion, index
\* construction, worker storage, the solver) leaves every published value as it
\* was; a call that fails inside update_program_parameters leaves published
\* exactly the writes that preceded the failing one, a proper prefix of the
\* writes in index-set order.
C2_FailurePublishesPrefix ==
  /\ (ret # TRUE /\ fault[1] # "update_program_parameters") => pub = pub0
  /\ (fault[1] = "update_program_parameters") =>
       /\ ret # TRUE
       /\ \E k \in 0..(Len(PublishWrites) - 1) : pub = PublishedPrefix(k)

C2_Witness ==
  /\ pc = "done" /\ ret = FALSE
  /\ fault[1] = "update_program_parameters"
  /\ pub # pub0
  /\ \E k \in 1..(Len(PublishWrites) - 1) : pub = PublishedPrefix(k)

\* C3: once the solver has filled a total probability P(O) = 0 for some
\* observation, the call fails and never reaches the publishing step.
C3_ZeroDenominatorFatal ==
  zeroDen => (~Logged("update_program_parameters") /\ ret # TRUE)

IterSteps == {"prob_obs_reuse", "reset", "accumulate", "divide", "update_program_parameters"}
IterLog == SelectSeq(log, LAMBDA x : x \in IterSteps)
OnePass == <<"prob_obs_reuse", "reset", "accumulate", "divide">>
FullRun(n) == Flatten([k \in 1..n |-> OnePass]) \o <<"update_program_parameters">>

\* C4: a successful call has run exactly niters passes, each one solver call,
\* reset, accumulation and division in that order, and then published exactly
\* once; a call with a failed solver invocation never publishes.
C4_IterationOrder ==
  /\ (pc = "done" /\ ret = TRUE) => IterLog = FullRun(args.niters)
  /\ (fault[1] = "prob_obs_reuse") =>
       /\ ~Logged("update_program_parameters")
       /\ ret # TRUE

C4_Witness ==
  /\ pc = "done" /\ ret = TRUE
  /\ args.niters = MaxIters
  /\ Occurrences(log, "prob_obs_reuse") = MaxIters
  /\ Occurrences(log, "update_program_parameters") = 1

\* The update rule as the claim writes it: (1/N) * sum over o of c_o * joint_o / P(o).
TotalRepeat == DSum([k \in 1..Len(args.obs_counts) |-> FromInt(args.obs_counts[k])])
SoftCount(joint) ==
  DMul(DDiv(One, TotalRepeat),
       DSum([k \in 1..O.n |->
               DDiv(DMul(FromInt(args.obs_counts[k]), joint[k]), Q[0].P[k].o)]))

\* C5: after each pass every learnable fact and every outcome of every learnable
\* disjunction holds (1/N) * sum_o c_o * P(value, o) / P(o), computed from this
\* pass's solver answers alone; non-learnable entries keep their values.
C5_UpdateRule ==
  (LastStep = "divide") =>
    /\ \A i \in 1..I.n :
         P.PF[I.Fv[i] + 1].p = SoftCount([k \in 1..O.n |-> Q[0].P[k].F[i][2]])
    /\ \A i \in 1..I.m : \A j \in 1..P.AD[I.Av[i] + 1].n :
         P.AD[I.Av[i] + 1].P[j] = SoftCount([k \in 1..O.n |-> Q[0].P[k].A[i][j]])
    /\ \A x \in 1..Len(P.PF) : ~P.PF[x].learnable => P.PF[x].p = pub0.PF[x]
    /\ \A x \in 1..Len(P.AD) : ~P.AD[x].learnable => P.AD[x].P = pub0.AD[x]

\* One learnable fact, counts 3 and 1, joints 0.9 and 0.1, P(O) = 1: 0.7.
C5_Witness ==
  /\ LastStep = "divide"
  /\ Len(P.PF) = 1 /\ I.n = 1 /\ I.m = 0
  /\ args.obs_counts = <<3, 1>>
  /\ Q[0].P[1].o = One /\ Q[0].P[1].F[1][2] = Frac(9, 10)
  /\ Q[0].P[2].o = One /\ Q[0].P[2].F[1][2] = Frac(1, 10)
  /\ P.PF[1].p = Frac(7, 10)

\* The solver's answers partition each observation's probability over the
\* outcomes of the disjunction at index-set position i.
Partitions(i) ==
  \A k \in 1..O.n :
    /\ IsFinite(Q[0].P[k].o) /\ Q[0].P[k].o # Zero
    /\ DSum(Q[0].P[k].A[i]) = Q[0].P[k].o

\* C6: after every pass the outcome probabilities of every learnable disjunction
\* sum to 1, provided N > 0 and the solver's joint contributions over the
\* disjunction's outcomes sum to P(O) > 0 for every observation.
C6_MassInvariant ==
  (LastStep = "divide") =>
    \A i \in 1..I.m :
      (N > 0 /\ Partitions(i)) => DSum(P.AD[I.Av[i] + 1].P) = One

C6_Witness ==
  /\ LastStep = "divide"
  /\ I.m = 1 /\ N = 4 /\ args.obs_counts = <<3, 1>>
  /\ Partitions(1)
  /\ Q[0].P[1].o = Half /\ Q[0].P[2].o = One
  /\ P.AD[I.Av[1] + 1].P = <<Frac(1, 4), Frac(1, 4), Half>>

NotLearnable(Pr) == LearnableSet(Pr.PF) = {} /\ LearnableSet(Pr.AD) = {}

\* The shapes the claim calls inconsistent.
ShapeMismatch(a) ==
  ~ /\ a.obs_ndim = 2
    /\ a.cnt_ndim = 1
    /\ a.atoms_ndim = 1
    /\ a.atoms_n = a.obs_dims[2]
    /\ Len(a.obs_counts) = a.obs_dims[1]

\* C7: a call on a program without learnable facts and disjunctions (nothing
\* else going wrong) fails with "program is not learnable", has allocated
\* nothing, and never invokes the solver or the publish step.
C7_NotLearnableAllocatesNothing ==
  (pc = "done" /\ NotLearnable(P) /\ ~ShapeMismatch(args) /\ fault = NoFail) =>
    /\ ret = FALSE
    /\ errs = <<"program is not learnable!">>
    /\ allocd = <<>>
    /\ ~Logged("prob_obs_reuse") /\ ~Logged("update_program_parameters")

\* C8: with inconsistent input shapes the call fails with the validation error
\* before any allocation step: init_observations, init_indices,
\* init_prob_storage_seq, the solver and the publish step never run, and the
\* cleanup path frees nothing.
C8_ValidationFirst ==
  (ShapeMismatch(args) /\ pc # "start") =>
    /\ pc \in {"cleanup", "done"}
    /\ errs = <<"unexpected size dimension for obs, obs_counts and/or atoms in learn_fixpoint!">>
    /\ SeqToSet(log) \subseteq {"cleanup"}
    /\ allocd = <<>> /\ freed = <<>>
    /\ ret # TRUE
    /\ pc = "done" => ret = FALSE

C8_Witness ==
  /\ pc = "done" /\ ret = FALSE
  /\ args.obs_ndim = 2 /\ args.cnt_ndim = 1 /\ args.atoms_ndim = 1
  /\ args.atoms_n # args.obs_dims[2]
  /\ log = <<"cleanup">>

\* C10: on every exit taken after the index set or the worker storage was
\* allocated, the index arrays and every populated worker slot have been freed
\* exactly once when the call returns.
C10_ReleasedOnEveryExit ==
  (pc = "done") =>
    \A b \in {BlkIF, BlkIA} \cup {BlkQ(k) : k \in 0..(NUM_PROCS - 1)} :
      b \in SeqToSet(allocd) => Occurrences(freed, b) = 1

====
